---- MODULE Spec2Model ----
(***************************************************************************)
(* The title construct of markdown-rs (src/construct/partial_title.rs):    *)
(* a continuation-passing state machine run by the tokenizer, one unit     *)
(* (Code) at a time.  Every state function of the source is an operator    *)
(* with the source's name and one action that applies it to the current    *)
(* code; a direct call `f(tokenizer, code, info)` hands the same,          *)
(* unconsumed code to f, a returned `State::Fn` waits for the next code.   *)
(* The tokenizer primitives, the line-ending sub-automaton and the linker  *)
(* are collaborators whose code is elsewhere; they follow their contract.  *)
(***************************************************************************)
EXTENDS Naturals, Sequences, FiniteSets

\* ------------------------------------------------------------------ bounds
\* Longest title body, in units: the opening character, at most MaxBody
\* further units and then a closing character or the end of the input are
\* fed.
MaxBody == 4

\* ------------------------------------------------------------------- codes
\* Code::None, the end-of-input sentinel.
None == "None"
\* Code::CarriageReturnLineFeed, one atomic unit.
CarriageReturnLineFeed == "CRLF"
\* Code::Char(c) for the characters the construct tells apart, and one
\* ordinary character.
Chars == {"\"", "'", "(", ")", "\\", "a", " ", "\n", "\r"}
Codes == Chars \cup {CarriageReturnLineFeed, None}

IsEol(code) == code \in {CarriageReturnLineFeed, "\n", "\r"}
IsSpaceOrTab(code) == code \in {" ", "\t"}

\* --------------------------------------------------------------- Kind, Info
Kinds == {"Paren", "Double", "Single"}

Kind_as_char(kind) ==
  CASE kind = "Paren" -> ")"
    [] kind = "Double" -> "\""
    [] kind = "Single" -> "'"
    [] OTHER -> "unreachable"

\* Mutant of Kind::from_char: the two quote characters are swapped.
Kind_from_char_swapped(char) ==
  CASE char = "(" -> "Paren"
    [] char = "\"" -> "Single"
    [] char = "'" -> "Double"
    [] OTHER -> "panic"

Kind_from_char(char) ==
  CASE char = "(" -> "Paren"
    [] char = "\"" -> "Double"
    [] char = "'" -> "Single"
    [] OTHER -> "panic"

Kind_from_code(code) ==
  IF code \in Chars THEN Kind_from_char(code) ELSE "panic"

\* The token types the caller passes in.
Options == [title |-> "Title", marker |-> "Marker", string |-> "String"]

\* No Info exists before start has accepted an opener.
NoInfo == [connect |-> FALSE, kind |-> "None", options |-> Options]

\* --------------------------------------------------------------- tokenizer
\* An event: Enter or Exit of a token at a position; content is the content
\* type of the span ("String" or "None"); previous is the index of the
\* Enter event this one is linked to (0: not linked).
Event(kind, token, index, content) ==
  [kind |-> kind, token |-> token, index |-> index, content |-> content,
   previous |-> 0]

enter_with_content(t, token, content) ==
  [t EXCEPT !.events = Append(@, Event("Enter", token, t.point, content))]

enter(t, token) == enter_with_content(t, token, "None")

exit(t, token) ==
  [t EXCEPT !.events = Append(@, Event("Exit", token, t.point, "None"))]

consume(t, code) == [t EXCEPT !.point = @ + 1]

\* Index of the last Enter event before `index` that carries a content type.
PreviousContent(events, index) ==
  LET S == {i \in 1..(index - 1) :
              events[i].kind = "Enter" /\ events[i].content # "None"}
  IN IF S = {} THEN 0 ELSE CHOOSE i \in S : \A j \in S : j <= i

\* subtokenize::link: the Enter event at `index` continues the span before it.
link(events, index) ==
  [events EXCEPT ![index].previous = PreviousContent(events, index)]

\* tokenizer.go: run a sub-automaton; its effects are committed when it
\* succeeds (control resumes at `after`) and discarded when it fails.
go(t, state_fn, after) ==
  [t EXCEPT !.frames = Append(@, [events |-> t.events, point |-> t.point,
                                   state_fn |-> state_fn, after |-> after])]

Top(frames) == frames[Len(frames)]
Pop(frames) == SubSeq(frames, 1, Len(frames) - 1)

\* The outcome of the sub-automaton run by tokenizer.go: on success its
\* events and position stay and the continuation is next; on failure the
\* log and the position are those of the moment of delegation, and Nok is
\* passed up.
go_done(t, ok) ==
  LET frame == Top(t.frames)
  IN IF ok
     THEN [tokenizer |-> [t EXCEPT !.frames = Pop(@)], state |-> frame.after]
     ELSE [tokenizer |-> [events |-> frame.events, point |-> frame.point,
                          frames |-> Pop(t.frames)],
           state |-> "Nok"]

\* Result of one state function: the tokenizer, the Info it carries on and
\* the state it returns or calls.
Result(t, info, state) == [tokenizer |-> t, info |-> info, state |-> state]

\* ------------------------------------------------------------ the construct
\* Mutant of start: the closing parenthesis is taken for an opener.
start_accepts_closer(tokenizer, code, options) ==
  IF code \in {"\"", "'", "(", ")"}
  THEN LET info == [connect |-> FALSE, kind |-> Kind_from_code(code),
                    options |-> options]
           t1 == enter(tokenizer, options.title)
           t2 == enter(t1, options.marker)
           t3 == consume(t2, code)
           t4 == exit(t3, options.marker)
       IN Result(t4, info, "begin")
  ELSE Result(tokenizer, NoInfo, "Nok")

\* Mutant of start: the carriage-return+line-feed pair is taken for an opener.
start_accepts_crlf(tokenizer, code, options) ==
  IF code \in {"\"", "'", "(", CarriageReturnLineFeed}
  THEN LET info == [connect |-> FALSE, kind |-> Kind_from_code(code),
                    options |-> options]
           t1 == enter(tokenizer, options.title)
           t2 == enter(t1, options.marker)
           t3 == consume(t2, code)
           t4 == exit(t3, options.marker)
       IN Result(t4, info, "begin")
  ELSE Result(tokenizer, NoInfo, "Nok")

start(tokenizer, code, options) ==
  IF code \in {"\"", "'", "("}
  THEN LET info == [connect |-> FALSE, kind |-> Kind_from_code(code),
                    options |-> options]
           t1 == enter(tokenizer, options.title)
           t2 == enter(t1, options.marker)
           t3 == consume(t2, code)
           t4 == exit(t3, options.marker)
       IN Result(t4, info, "begin")
  ELSE Result(tokenizer, NoInfo, "Nok")

\* Mutant of begin: the closing character is consumed before the Marker span
\* is opened.
begin_consumes_first(tokenizer, code, info) ==
  IF code \in Chars /\ code = Kind_as_char(info.kind)
  THEN LET t1 == consume(tokenizer, code)
           t2 == enter(t1, info.options.marker)
           t3 == exit(t2, info.options.marker)
           t4 == exit(t3, info.options.title)
       IN Result(t4, info, "Ok")
  ELSE Result(enter(tokenizer, info.options.string), info, "at_break")

\* Mutant of begin: Ok is returned with the closing character left pending.
begin_ok_without_consume(tokenizer, code, info) ==
  IF code \in Chars /\ code = Kind_as_char(info.kind)
  THEN LET t1 == enter(tokenizer, info.options.marker)
           t3 == exit(t1, info.options.marker)
           t4 == exit(t3, info.options.title)
       IN Result(t4, info, "Ok")
  ELSE Result(enter(tokenizer, info.options.string), info, "at_break")

\* Mutant of begin: a String span is opened and closed before the closing
\* marker.
begin_empty_string(tokenizer, code, info) ==
  IF code \in Chars /\ code = Kind_as_char(info.kind)
  THEN LET t0 == exit(enter(tokenizer, info.options.string),
                      info.options.string)
           t1 == enter(t0, info.options.marker)
           t2 == consume(t1, code)
           t3 == exit(t2, info.options.marker)
           t4 == exit(t3, info.options.title)
       IN Result(t4, info, "Ok")
  ELSE Result(enter(tokenizer, info.options.string), info, "at_break")

begin(tokenizer, code, info) ==
  IF code \in Chars /\ code = Kind_as_char(info.kind)
  THEN LET t1 == enter(tokenizer, info.options.marker)
           t2 == consume(t1, code)
           t3 == exit(t2, info.options.marker)
           t4 == exit(t3, info.options.title)
       IN Result(t4, info, "Ok")
  ELSE Result(enter(tokenizer, info.options.string), info, "at_break")

\* Mutant of at_break: a new Data span is never linked.
at_break_never_links(tokenizer, code, info) ==
  CASE code \in Chars /\ code = Kind_as_char(info.kind) ->
         Result(exit(tokenizer, info.options.string), info, "begin")
    [] code = None -> Result(tokenizer, info, "Nok")
    [] IsEol(code) ->
         Result(go(tokenizer,
                   [content_type |-> "String", connect |-> info.connect],
                   "at_break_after"),
                info, "space_or_tab_eol")
    [] OTHER ->
         Result(enter_with_content(tokenizer, "Data", "String"),
                [info EXCEPT !.connect = TRUE], "title")

\* Mutant of at_break: the line ending is consumed on the spot, without the
\* sub-automaton.
at_break_eol_inline(tokenizer, code, info) ==
  CASE code \in Chars /\ code = Kind_as_char(info.kind) ->
         Result(exit(tokenizer, info.options.string), info, "begin")
    [] code = None -> Result(tokenizer, info, "Nok")
    [] IsEol(code) ->
         LET t1 == enter_with_content(tokenizer, "LineEnding", "String")
             t2 == IF info.connect
                   THEN [t1 EXCEPT !.events = link(@, Len(@))]
                   ELSE t1
             t3 == exit(consume(t2, code), "LineEnding")
         IN Result(t3, [info EXCEPT !.connect = TRUE], "at_break")
    [] OTHER ->
         LET t1 == enter_with_content(tokenizer, "Data", "String")
         IN IF info.connect
            THEN Result([t1 EXCEPT !.events = link(@, Len(@))], info, "title")
            ELSE Result(t1, [info EXCEPT !.connect = TRUE], "title")

\* Mutant of at_break: the end of the input closes the title.
at_break_eof_closes(tokenizer, code, info) ==
  CASE code \in Chars /\ code = Kind_as_char(info.kind) ->
         Result(exit(tokenizer, info.options.string), info, "begin")
    [] code = None ->
         Result(exit(exit(tokenizer, info.options.string),
                     info.options.title), info, "Ok")
    [] IsEol(code) ->
         Result(go(tokenizer,
                   [content_type |-> "String", connect |-> info.connect],
                   "at_break_after"),
                info, "space_or_tab_eol")
    [] OTHER ->
         LET t1 == enter_with_content(tokenizer, "Data", "String")
         IN IF info.connect
            THEN Result([t1 EXCEPT !.events = link(@, Len(@))], info, "title")
            ELSE Result(t1, [info EXCEPT !.connect = TRUE], "title")

\* Mutant of at_break: the flag is set when the line ending is seen, not
\* when the sub-automaton has succeeded.
at_break_eager_connect(tokenizer, code, info) ==
  CASE code \in Chars /\ code = Kind_as_char(info.kind) ->
         Result(exit(tokenizer, info.options.string), info, "begin")
    [] code = None -> Result(tokenizer, info, "Nok")
    [] IsEol(code) ->
         Result(go(tokenizer,
                   [content_type |-> "String", connect |-> info.connect],
                   "at_break_after"),
                [info EXCEPT !.connect = TRUE], "space_or_tab_eol")
    [] OTHER ->
         LET t1 == enter_with_content(tokenizer, "Data", "String")
         IN IF info.connect
            THEN Result([t1 EXCEPT !.events = link(@, Len(@))], info, "title")
            ELSE Result(t1, [info EXCEPT !.connect = TRUE], "title")

\* Mutant of at_break: the end of the input is taken for text.
at_break_eof_opens_data(tokenizer, code, info) ==
  CASE code \in Chars /\ code = Kind_as_char(info.kind) ->
         Result(exit(tokenizer, info.options.string), info, "begin")
    [] IsEol(code) ->
         Result(go(tokenizer,
                   [content_type |-> "String", connect |-> info.connect],
                   "at_break_after"),
                info, "space_or_tab_eol")
    [] OTHER ->
         LET t1 == enter_with_content(tokenizer, "Data", "String")
         IN IF info.connect
            THEN Result([t1 EXCEPT !.events = link(@, Len(@))], info, "title")
            ELSE Result(t1, [info EXCEPT !.connect = TRUE], "title")

\* Mutant of at_break: the Data span carries no content type.
at_break_plain_data(tokenizer, code, info) ==
  CASE code \in Chars /\ code = Kind_as_char(info.kind) ->
         Result(exit(tokenizer, info.options.string), info, "begin")
    [] code = None -> Result(tokenizer, info, "Nok")
    [] IsEol(code) ->
         Result(go(tokenizer,
                   [content_type |-> "String", connect |-> info.connect],
                   "at_break_after"),
                info, "space_or_tab_eol")
    [] OTHER ->
         LET t1 == enter(tokenizer, "Data")
         IN IF info.connect
            THEN Result([t1 EXCEPT !.events = link(@, Len(@))], info, "title")
            ELSE Result(t1, [info EXCEPT !.connect = TRUE], "title")

at_break(tokenizer, code, info) ==
  CASE code \in Chars /\ code = Kind_as_char(info.kind) ->
         Result(exit(tokenizer, info.options.string), info, "begin")
    [] code = None -> Result(tokenizer, info, "Nok")
    [] IsEol(code) ->
         Result(go(tokenizer,
                   [content_type |-> "String", connect |-> info.connect],
                   "at_break_after"),
                info, "space_or_tab_eol")
    [] OTHER ->
         LET t1 == enter_with_content(tokenizer, "Data", "String")
         IN IF info.connect
            THEN Result([t1 EXCEPT !.events = link(@, Len(@))], info, "title")
            ELSE Result(t1, [info EXCEPT !.connect = TRUE], "title")

\* Mutant of at_break_after: the flag is left as it was.
at_break_after_keeps_connect(tokenizer, code, info) ==
  Result(tokenizer, info, "at_break")

\* The continuation at_break gives to tokenizer.go.
at_break_after(tokenizer, code, info) ==
  Result(tokenizer, [info EXCEPT !.connect = TRUE], "at_break")

\* Mutant of title: a lone carriage return is taken for ordinary text.
title_consumes_cr(tokenizer, code, info) ==
  CASE code \in Chars /\ code = Kind_as_char(info.kind) ->
         Result(exit(tokenizer, "Data"), info, "at_break")
    [] code = None \/ code \in {CarriageReturnLineFeed, "\n"} ->
         Result(exit(tokenizer, "Data"), info, "at_break")
    [] code = "\\" -> Result(consume(tokenizer, code), info, "escape")
    [] OTHER -> Result(consume(tokenizer, code), info, "title")

\* Mutant of title: the Data span is left open at the closing character.
title_keeps_data_open(tokenizer, code, info) ==
  CASE code \in Chars /\ code = Kind_as_char(info.kind) ->
         Result(tokenizer, info, "at_break")
    [] code = None \/ IsEol(code) ->
         Result(exit(tokenizer, "Data"), info, "at_break")
    [] code = "\\" -> Result(consume(tokenizer, code), info, "escape")
    [] OTHER -> Result(consume(tokenizer, code), info, "title")

\* Mutant of title: the backslash is handed to escape without being consumed.
title_backslash_not_consumed(tokenizer, code, info) ==
  CASE code \in Chars /\ code = Kind_as_char(info.kind) ->
         Result(exit(tokenizer, "Data"), info, "at_break")
    [] code = None \/ IsEol(code) ->
         Result(exit(tokenizer, "Data"), info, "at_break")
    [] code = "\\" -> Result(tokenizer, info, "escape")
    [] OTHER -> Result(consume(tokenizer, code), info, "title")

title(tokenizer, code, info) ==
  CASE code \in Chars /\ code = Kind_as_char(info.kind) ->
         Result(exit(tokenizer, "Data"), info, "at_break")
    [] code = None \/ IsEol(code) ->
         Result(exit(tokenizer, "Data"), info, "at_break")
    [] code = "\\" -> Result(consume(tokenizer, code), info, "escape")
    [] OTHER -> Result(consume(tokenizer, code), info, "title")

\* Mutant of escape: the closing character is handed back to title.
escape_never_consumes(tokenizer, code, info) ==
  Result(tokenizer, info, "title")

\* Mutant of escape: whatever character follows the backslash is consumed.
escape_swallows_unit(tokenizer, code, info) ==
  IF code \in Chars
  THEN Result(consume(tokenizer, code), info, "title")
  ELSE Result(tokenizer, info, "title")

\* Mutant of escape: a backslash after a backslash is consumed as well.
escape_consumes_backslash(tokenizer, code, info) ==
  IF code \in Chars /\ (code = Kind_as_char(info.kind) \/ code = "\\")
  THEN Result(consume(tokenizer, code), info, "title")
  ELSE Result(tokenizer, info, "title")

escape(tokenizer, code, info) ==
  IF code \in Chars /\ code = Kind_as_char(info.kind)
  THEN Result(consume(tokenizer, code), info, "title")
  ELSE Result(tokenizer, info, "title")

\* ------------------------------------------- the line-ending sub-automaton
\* space_or_tab_eol_with_options, at the line ending: one LineEnding span of
\* the given content type, linked when a span exists to link it to.
space_or_tab_eol_with_options(tokenizer, code, options) ==
  IF IsEol(code)
  THEN LET t1 == enter_with_content(tokenizer, "LineEnding",
                                    options.content_type)
           t2 == IF options.connect
                 THEN [t1 EXCEPT !.events = link(@, Len(@))]
                 ELSE t1
           t3 == consume(t2, code)
       IN [tokenizer |-> exit(t3, "LineEnding"), state |-> "eol_after"]
  ELSE go_done(tokenizer, FALSE)

\* After the line ending or the whitespace behind it: a further line ending
\* or the end of the input makes the line blank.
eol_end(tokenizer, code) ==
  go_done(tokenizer, ~(code = None \/ IsEol(code)))

\* After the line ending: the whitespace behind it is one SpaceOrTab span.
eol_after(tokenizer, code, options) ==
  IF IsSpaceOrTab(code)
  THEN LET t1 == enter_with_content(tokenizer, "SpaceOrTab",
                                    options.content_type)
           t2 == [t1 EXCEPT !.events = link(@, Len(@))]
       IN [tokenizer |-> consume(t2, code), state |-> "eol_space"]
  ELSE eol_end(tokenizer, code)

\* In the whitespace after the line ending.
eol_space(tokenizer, code) ==
  IF IsSpaceOrTab(code)
  THEN [tokenizer |-> consume(tokenizer, code), state |-> "eol_space"]
  ELSE eol_end(exit(tokenizer, "SpaceOrTab"), code)

\* ------------------------------------------------------------------- state
VARIABLES
  codes,      \* the units fed so far, the last one possibly Code::None
  tokenizer,  \* events, point (units consumed) and the frames of the
              \* attempts that are running
  info,       \* the Info the pending state function carries
  pc,         \* the state function that runs next, or Ok, Nok, Restored
  delegated   \* history: log, position and flag at the moment at_break
              \* last delegated; running until the continuation has run

vars == <<codes, tokenizer, info, pc, delegated>>

States == {"start", "begin", "at_break", "at_break_after", "title", "escape",
           "space_or_tab_eol", "eol_after", "eol_space"}

\* The caller runs start as an attempt: the frame holds what it found.
CallerFrame(events, point) ==
  [events |-> events, point |-> point,
   state_fn |-> [content_type |-> "None", connect |-> FALSE],
   after |-> "caller"]

\* The log the caller hands over: the span it has opened is in it.
CallerEvents == <<Event("Enter", "Definition", 0, "None")>>

Init ==
  /\ codes = <<>>
  /\ tokenizer = [events |-> CallerEvents, point |-> 0,
                  frames |-> <<CallerFrame(CallerEvents, 0)>>]
  /\ info = NoInfo
  /\ pc = "start"
  /\ delegated = [events |-> <<>>, point |-> 0, connect |-> FALSE,
                  running |-> FALSE]

\* A unit is waiting that no state function has consumed.
HasCode == tokenizer.point < Len(codes)
Code == codes[tokenizer.point + 1]

\* The units fed behind the first one.  No state function tells an opening
\* parenthesis behind the opener from other text, so "a" stands for it.
BodyCodes == Codes \ {"("}

\* The driver feeds the next unit to a pending State::Fn.
Feed ==
  /\ pc \in States
  /\ ~HasCode
  /\ IF codes = <<>> THEN TRUE ELSE codes[Len(codes)] # None
  /\ \E code \in IF codes = <<>> THEN Codes ELSE BodyCodes :
       /\ \/ code = None
          \/ Len(codes) <= MaxBody
          \/ Len(codes) = MaxBody + 1 /\ code = Kind_as_char(info.kind)
       /\ codes' = Append(codes, code)
  /\ UNCHANGED <<tokenizer, info, pc, delegated>>

\* One state function of the construct runs on the current code.
Run(result) ==
  /\ tokenizer' = result.tokenizer
  /\ info' = result.info
  /\ pc' = result.state
  /\ UNCHANGED codes

Start ==
  /\ pc = "start" /\ HasCode
  /\ Run(start(tokenizer, Code, Options))
  /\ UNCHANGED delegated

Begin ==
  /\ pc = "begin" /\ HasCode
  /\ Run(begin(tokenizer, Code, info))
  /\ UNCHANGED delegated

AtBreak ==
  /\ pc = "at_break" /\ HasCode
  /\ Run(at_break(tokenizer, Code, info))
  /\ delegated' = IF IsEol(Code)
                  THEN [events |-> tokenizer.events,
                        point |-> tokenizer.point,
                        connect |-> info.connect, running |-> TRUE]
                  ELSE delegated

AtBreakAfter ==
  /\ pc = "at_break_after" /\ HasCode
  /\ Run(at_break_after(tokenizer, Code, info))
  /\ delegated' = [delegated EXCEPT !.running = FALSE]

Title ==
  /\ pc = "title" /\ HasCode
  /\ Run(title(tokenizer, Code, info))
  /\ UNCHANGED delegated

Escape ==
  /\ pc = "escape" /\ HasCode
  /\ Run(escape(tokenizer, Code, info))
  /\ UNCHANGED delegated

\* One state function of the sub-automaton runs on the current code.
RunSub(result) ==
  /\ tokenizer' = result.tokenizer
  /\ pc' = result.state
  /\ UNCHANGED <<codes, info, delegated>>

SpaceOrTabEol ==
  /\ pc = "space_or_tab_eol" /\ HasCode
  /\ RunSub(space_or_tab_eol_with_options(tokenizer, Code,
                                          Top(tokenizer.frames).state_fn))

EolAfter ==
  /\ pc = "eol_after" /\ HasCode
  /\ RunSub(eol_after(tokenizer, Code, Top(tokenizer.frames).state_fn))

EolSpace ==
  /\ pc = "eol_space" /\ HasCode
  /\ RunSub(eol_space(tokenizer, Code))

\* Mutant of attempt_nok: the position is restored, the log is not.
attempt_nok_keeps_events(t) ==
  [events |-> t.events, point |-> t.frames[1].point, frames |-> <<>>]

\* The caller's attempt on Nok: the log and the position are restored.
attempt_nok(t) ==
  [events |-> t.frames[1].events, point |-> t.frames[1].point,
   frames |-> <<>>]

Restore ==
  /\ pc = "Nok"
  /\ tokenizer' = attempt_nok(tokenizer)
  /\ pc' = "Restored"
  /\ UNCHANGED <<codes, info, delegated>>

Next ==
  \/ Feed
  \/ Start
  \/ Begin
  \/ AtBreak
  \/ AtBreakAfter
  \/ Title
  \/ Escape
  \/ SpaceOrTabEol
  \/ EolAfter
  \/ EolSpace
  \/ Restore

Spec == Init /\ [][Next]_vars

\* The driver invokes the pending state function, and feeds it the next unit,
\* until the construct has returned Ok or Nok.
FairSpec == Spec /\ WF_vars(Next)

\* ------------------------------------------------------ reading the state
Openers == {"\"", "'", "("}

\* The closing character of the running title.
Closer == Kind_as_char(info.kind)

\* start has accepted the first unit.
Accepted == info.kind \in Kinds

\* The events appended since start was called.
Appended ==
  SubSeq(tokenizer.events, Len(CallerEvents) + 1, Len(tokenizer.events))

\* The spans of `token` in the log: the Enter event, the source text it
\* covers (units from + 1 .. to), and whether it is linked.  A leaf span is
\* closed by the event after its Enter; an open one reaches the position.
Spans(token) ==
  LET ev == tokenizer.events
  IN {[enter |-> i,
       from |-> ev[i].index,
       to |-> IF i < Len(ev) THEN ev[i + 1].index ELSE tokenizer.point,
       content |-> ev[i].content,
       previous |-> ev[i].previous] :
        i \in {j \in 1..Len(ev) : ev[j].kind = "Enter" /\ ev[j].token = token}}

Text(span) == SubSeq(codes, span.from + 1, span.to)

\* ---------------------------------------------------------------- claims

\* C1: when the first unit is not one of the three opening characters
\* (end-of-input, a line ending and the closing parenthesis included), start
\* returns Nok at once, and the log and the position are what they were
\* before start was called.
StartRejectsNonOpener ==
  (codes # <<>> /\ codes[1] \notin Openers) =>
    /\ Len(codes) = 1
    /\ pc \in {"start", "Nok", "Restored"}
    /\ tokenizer.events = CallerEvents
    /\ tokenizer.point = 0
    /\ info = NoInfo

StartRejectedWitness ==
  /\ pc = "Nok"
  /\ codes = <<")">>
  /\ tokenizer.events = CallerEvents

\* C2: an opening character immediately followed by its matching closing
\* character ends in Ok, and the events appended are exactly Enter(Title),
\* Enter(Marker), Exit(Marker), Enter(Marker), Exit(Marker), Exit(Title).
EmptyTitleEvents ==
  <<Event("Enter", Options.title, 0, "None"),
    Event("Enter", Options.marker, 0, "None"),
    Event("Exit", Options.marker, 1, "None"),
    Event("Enter", Options.marker, 1, "None"),
    Event("Exit", Options.marker, 2, "None"),
    Event("Exit", Options.title, 2, "None")>>

EmptyTitle ==
  (/\ Len(codes) = 2
   /\ codes[1] \in Openers
   /\ codes[2] = Kind_as_char(Kind_from_char(codes[1]))) =>
    \/ pc = "begin" /\ HasCode
    \/ /\ pc = "Ok"
       /\ Appended = EmptyTitleEvents
       /\ tokenizer.point = 2
       /\ Spans("Data") = {} /\ Spans(Options.string) = {}

EmptyTitleWitness ==
  /\ pc = "Ok"
  /\ codes = <<"(", ")">>

\* C3: a closing character right after a backslash is consumed as content of
\* the Data span that is open (it holds the backslash too); the title is
\* closed only by a closing character that no backslash precedes; and
\* ( a \ ) a ) ends in Ok with the single Data span a \ ) a.
EscapedCloserInput == <<"(", "a", "\\", ")", "a", ")">>

EscapedCloserIsData ==
  /\ \A i \in 3..Len(codes) :
       (/\ Accepted
        /\ codes[i - 1] = "\\"
        /\ codes[i] = Closer
        /\ tokenizer.point >= i) =>
         \E d \in Spans("Data") : d.from <= i - 2 /\ d.to >= i
  /\ pc = "Ok" =>
       /\ codes[tokenizer.point] = Closer
       /\ codes[tokenizer.point - 1] # "\\"
  /\ (codes = EscapedCloserInput /\ ~HasCode) =>
       /\ pc = "Ok"
       /\ Cardinality(Spans("Data")) = 1
       /\ \A d \in Spans("Data") : Text(d) = <<"a", "\\", ")", "a">>

EscapedCloserWitness ==
  /\ pc = "Ok"
  /\ codes = EscapedCloserInput

\* The Enter events that carry a content type, and those of Data spans.
ContentEnters ==
  {i \in 1..Len(tokenizer.events) :
     tokenizer.events[i].kind = "Enter" /\ tokenizer.events[i].content # "None"}

DataEnters ==
  {i \in 1..Len(tokenizer.events) :
     tokenizer.events[i].kind = "Enter" /\ tokenizer.events[i].token = "Data"}

\* Unit i is a line ending or whitespace behind one.
RECURSIVE InEolRun(_)
InEolRun(i) ==
  \/ IsEol(codes[i])
  \/ IsSpaceOrTab(codes[i]) /\ i > 2 /\ InEolRun(i - 1)

\* The first units of the text segments between the two markers of an
\* accepted title.
SegmentStarts ==
  {i \in 2..(tokenizer.point - 1) :
     ~InEolRun(i) /\ (i = 2 \/ InEolRun(i - 1))}

\* C4: text segments separated by single line endings end in Ok with one
\* Data span per segment, and every Data span but the first is linked, when
\* it is opened, to the span before it: the Data spans form one chain in log
\* order (every span with a content type after the first Data span is
\* linked to the one before it).  "a, line ending, a" gives two linked Data
\* spans.
TwoSegmentsInput == <<"\"", "a", "\n", "a", "\"">>

DataSpansChained ==
  /\ LET ev == tokenizer.events
         content == ContentEnters
         data == DataEnters
     IN \A c \in content :
          (\E d \in data : d < c) =>
            /\ ev[c].previous \in content
            /\ ev[c].previous < c
            /\ \A j \in content : j < c => j <= ev[c].previous
  /\ pc = "Ok" =>
       /\ {d.from + 1 : d \in Spans("Data")} = SegmentStarts
       /\ \A d \in Spans("Data") :
            d.to + 1 = tokenizer.point \/ IsEol(codes[d.to + 1])
  /\ (codes = TwoSegmentsInput /\ ~HasCode) =>
       /\ pc = "Ok"
       /\ {<<d.from, d.to, d.previous # 0>> : d \in Spans("Data")}
            = {<<1, 2, FALSE>>, <<3, 4, TRUE>>}

TwoSegmentsWitness ==
  /\ pc = "Ok"
  /\ codes = TwoSegmentsInput
  /\ Cardinality(Spans("Data")) = 2

\* A line ending of the body is followed by whitespace only up to another
\* line ending or the end of the input.
BlankLineFed ==
  \E i \in 2..Len(codes) : \E j \in (i + 1)..Len(codes) :
    /\ IsEol(codes[i])
    /\ codes[j] = None \/ IsEol(codes[j])
    /\ \A k \in (i + 1)..(j - 1) : IsSpaceOrTab(codes[k])

\* C5: a blank line inside the title makes the line-ending sub-automaton
\* fail and the construct return Nok; no run with a blank line ends in Ok.
BlankLineIsNok ==
  /\ BlankLineFed =>
       /\ delegated.running
       /\ \/ pc \in {"eol_after", "eol_space"} /\ HasCode
          \/ pc \in {"Nok", "Restored"}
  /\ pc = "Ok" => ~BlankLineFed

BlankLineWitness ==
  /\ pc = "Nok"
  /\ codes = <<"\"", "a", "\n", " ", "\n">>

\* C6: when the end of the input comes before an unescaped closing
\* character the run does not end in Ok: the state function that is pending
\* runs on the sentinel, which is never consumed, and Nok is returned; also
\* after a backslash or an escaped closing character.
UnterminatedIsNok ==
  (codes # <<>> /\ codes[Len(codes)] = None /\ codes[1] \in Openers) =>
    /\ pc # "Ok"
    /\ tokenizer.point < Len(codes)
    /\ pc \in States \cup {"Nok", "Restored"}

UnterminatedWitness ==
  /\ pc = "Nok"
  /\ codes = <<"\"", "\\", "\"", None>>

LeafTokens == {Options.marker, "Data", "LineEnding", "SpaceOrTab"}

IsLeafEnter(i) ==
  /\ tokenizer.events[i].kind = "Enter"
  /\ tokenizer.events[i].token \in LeafTokens

LeafEnters == {i \in 1..Len(tokenizer.events) : IsLeafEnter(i)}

\* The source text of the leaf spans among the first n events, in log order.
RECURSIVE LeafText(_)
LeafText(n) ==
  IF n = 0
  THEN <<>>
  ELSE LeafText(n - 1) \o
         (IF IsLeafEnter(n) /\ n < Len(tokenizer.events)
          THEN SubSeq(codes, tokenizer.events[n].index + 1,
                      tokenizer.events[n + 1].index)
          ELSE <<>>)

\* C8: in a run that ends in Ok the leaf spans between Enter(Title) and
\* Exit(Title), in log order, cover every consumed unit exactly once; their
\* concatenation is the consumed input.
LeafSpansTile ==
  pc = "Ok" =>
    LET ev == tokenizer.events
    IN /\ \A i \in LeafEnters :
            /\ i < Len(ev)
            /\ ev[i + 1].kind = "Exit" /\ ev[i + 1].token = ev[i].token
            /\ \A j \in LeafEnters : i < j => ev[i + 1].index <= ev[j].index
       /\ \A u \in 1..tokenizer.point :
            Cardinality({i \in LeafEnters :
                           ev[i].index < u /\ u <= ev[i + 1].index}) = 1
       /\ LeafText(Len(ev)) = SubSeq(codes, 1, tokenizer.point)
       /\ tokenizer.point = Len(codes)
       /\ Appended[1] = Event("Enter", Options.title, 0, "None")
       /\ ev[Len(ev)] = Event("Exit", Options.title, tokenizer.point, "None")

LeafSpansWitness ==
  /\ pc = "Ok"
  /\ codes = <<"'", "\\", "'", "\r", " ", "'">>

\* The span a token may be opened in: Marker and String in Title, Data and
\* the spans of the sub-automaton in String; Title, and what the caller
\* opens, anywhere.
MayOpenIn(token, open) ==
  CASE token \in {Options.marker, Options.string} ->
         open # <<>> /\ open[Len(open)] = Options.title
    [] token \in {"Data", "LineEnding", "SpaceOrTab"} ->
         open # <<>> /\ open[Len(open)] = Options.string
    [] OTHER -> TRUE

\* The tokens of the spans that are open after the events from the i-th on,
\* innermost last, when `open` are those open before it; <<"Mismatch">> when
\* an Exit does not close the innermost span or a span is opened in the
\* wrong one.
RECURSIVE OpenSpans(_, _, _)
OpenSpans(events, i, open) ==
  IF i > Len(events)
  THEN open
  ELSE IF events[i].kind = "Enter"
       THEN IF MayOpenIn(events[i].token, open)
            THEN OpenSpans(events, i + 1, Append(open, events[i].token))
            ELSE <<"Mismatch">>
       ELSE IF open # <<>> /\ open[Len(open)] = events[i].token
            THEN OpenSpans(events, i + 1, SubSeq(open, 1, Len(open) - 1))
            ELSE <<"Mismatch">>

\* C9: the events are well nested in every reachable state: every exit
\* closes the innermost open span, Data is open only in String, String and
\* Marker only in Title, and at Ok the open spans are those of before start.
WellNested ==
  LET open == OpenSpans(tokenizer.events, 1, <<>>)
  IN /\ open # <<"Mismatch">>
     /\ pc = "Ok" => open = OpenSpans(CallerEvents, 1, <<>>)
     /\ pc \in {"title", "escape"} =>
          /\ Len(open) >= 2
          /\ open[Len(open)] = "Data"
          /\ open[Len(open) - 1] = Options.string
     /\ pc \in {"at_break", "at_break_after", "space_or_tab_eol", "eol_after"}
          => open # <<>> /\ open[Len(open)] = Options.string
     /\ pc = "begin" => open # <<>> /\ open[Len(open)] = Options.title

WellNestedWitness ==
  /\ pc = "Ok"
  /\ Spans("Data") # {}
  /\ Spans("LineEnding") # {}
  /\ Spans("SpaceOrTab") # {}

\* C10: when the sub-automaton that at_break delegated to fails, the log and
\* the position are those of the moment of delegation, and the continuation
\* (which sets the flag and resumes at_break) has not run.
FailedDelegationLeavesNothing ==
  (pc = "Nok" /\ (delegated.running \/ BlankLineFed)) =>
    /\ delegated.running
    /\ tokenizer.events = delegated.events
    /\ tokenizer.point = delegated.point
    /\ info.connect = delegated.connect
    /\ Len(tokenizer.frames) = 1

FailedDelegationWitness ==
  /\ pc = "Nok"
  /\ delegated.running
  /\ codes = <<"\"", "\n", " ", None>>
  /\ tokenizer.point = 1
  /\ ~info.connect

\* The closing character that belongs to an opening character.
Matching(opener) ==
  CASE opener = "(" -> ")"
    [] opener = "\"" -> "\""
    [] opener = "'" -> "'"

\* C11: the closing character is a function of the opening character alone
\* (parenthesis with parenthesis, each quote with itself) and stays the same
\* for the whole run; start accepts the closing character of a kind only as
\* the opener of that same kind; a title is closed by its own closing
\* character only.
CloserMatchesOpener ==
  /\ Accepted =>
       /\ codes[1] \in Openers
       /\ Closer = Matching(codes[1])
       /\ \A kind \in Kinds : codes[1] = Kind_as_char(kind) => info.kind = kind
  /\ (codes # <<>> /\ codes[1] = ")") => ~Accepted
  /\ pc = "Ok" => codes[tokenizer.point] = Matching(codes[1])

CloserMatchesWitness ==
  /\ pc = "Ok"
  /\ codes = <<"(", "\"", "'", ")">>

\* C12: a body that is a non-empty run of units on one line, without
\* backslash and closing character, followed by the closing character ends
\* in Ok with exactly one Data span, tagged String, whose text is the body,
\* inside one String span between the two Marker spans, all inside Title.
PlainBody ==
  /\ Len(codes) >= 3
  /\ codes[1] \in Openers
  /\ codes[Len(codes)] = Matching(codes[1])
  /\ \A i \in 2..(Len(codes) - 1) :
       /\ ~IsEol(codes[i])
       /\ codes[i] \notin {"\\", None, Matching(codes[1])}

PlainBodyEvents(n) ==
  <<Event("Enter", Options.title, 0, "None"),
    Event("Enter", Options.marker, 0, "None"),
    Event("Exit", Options.marker, 1, "None"),
    Event("Enter", Options.string, 1, "None"),
    Event("Enter", "Data", 1, "String"),
    Event("Exit", "Data", n - 1, "None"),
    Event("Exit", Options.string, n - 1, "None"),
    Event("Enter", Options.marker, n - 1, "None"),
    Event("Exit", Options.marker, n, "None"),
    Event("Exit", Options.title, n, "None")>>

OneLineTitle ==
  (PlainBody /\ ~HasCode) =>
    /\ pc = "Ok"
    /\ tokenizer.point = Len(codes)
    /\ Appended = PlainBodyEvents(Len(codes))
    /\ \A d \in Spans("Data") :
         Text(d) = SubSeq(codes, 2, Len(codes) - 1) /\ d.content = "String"

OneLineTitleWitness ==
  /\ pc = "Ok"
  /\ codes = <<"\"", "a", " ", ")", "\"">>

\* The run is over: Ok, or Nok handed to the caller.
Done == pc \in {"Ok", "Restored"}

\* A measure of the state function that is about to run on `code`: every
\* call that hands the same unit on goes to a state function of smaller
\* measure.
Rank(state, code) ==
  LET break == code = Closer \/ code = None \/ IsEol(code)
  IN CASE state = "start" -> 8
       [] state \in {"eol_after", "eol_space"} -> 7
       [] state = "at_break_after" -> 6
       [] state = "escape" -> 5
       [] state = "begin" -> IF code = Closer THEN 1 ELSE 5
       [] state = "title" -> IF break THEN 4 ELSE 1
       [] state = "at_break" -> 3
       [] state = "space_or_tab_eol" -> 2
       [] OTHER -> 0

\* A state function has handed the unit it ran on to another one.
ZeroWidth ==
  /\ pc \in States /\ HasCode
  /\ pc' \in States
  /\ tokenizer'.point = tokenizer.point

\* C13: every run reaches Ok or Nok: a unit is re-presented only a bounded
\* number of times before it is consumed or the run ends, and the construct
\* does not stay pending once the end of the input has been fed.
Terminates ==
  /\ <>Done
  /\ [][ZeroWidth => Rank(pc', Code) < Rank(pc, Code)]_vars

TerminatesWitness ==
  /\ pc = "Restored"
  /\ codes = <<"'", "\\", "\n", "a", "\\", None>>

\* C14: the panic of Kind::from_code and Kind::from_char is unreachable from
\* start: they are called with an opening character only, whatever the first
\* unit is, so the kind is never the outcome of the panicking arm.
PanicUnreachable ==
  /\ info.kind # "panic"
  /\ (codes # <<>> /\ pc # "start") =>
       IF codes[1] \in Openers
       THEN /\ info.kind = Kind_from_code(codes[1])
            /\ info.kind \in Kinds
            /\ Closer # "unreachable"
       ELSE info = NoInfo

PanicUnreachableWitness ==
  /\ pc = "Nok"
  /\ codes = <<CarriageReturnLineFeed>>
  /\ info = NoInfo

\* The least element of a non-empty set of numbers.
Min(S) == CHOOSE n \in S : \A m \in S : n <= m

\* The closing characters of the input that no backslash precedes.
UnescapedClosers ==
  {i \in 2..Len(codes) :
     codes[i] = Matching(codes[1]) /\ codes[i - 1] # "\\"}

\* C15: with an opener first, the run ends in Ok exactly when a closing
\* character that no backslash precedes exists and no blank line lies before
\* the first such one; then the units up to and including it have been
\* consumed, and no more.  In every other case the run ends in Nok.
GrammarAcceptance ==
  (codes # <<>> /\ codes[1] \in Openers) =>
    /\ pc = "Ok" =>
         /\ UnescapedClosers = {Len(codes)}
         /\ tokenizer.point = Len(codes)
         /\ ~BlankLineFed
    /\ (UnescapedClosers # {} /\ ~BlankLineFed) =>
         \/ pc = "Ok"
         \/ pc \in States /\ HasCode /\ UnescapedClosers = {Len(codes)}
    /\ pc \in {"Nok", "Restored"} =>
         /\ UnescapedClosers = {}
         /\ codes[Len(codes)] = None \/ BlankLineFed

GrammarAcceptanceWitness ==
  /\ pc = "Nok"
  /\ codes = <<"\"", "\\", "\\", "\"", None>>

\* The Data span of the title that was opened first.
FirstData == {d \in DataEnters : \A e \in DataEnters : d <= e}

EscapeOnOther == pc = "escape" /\ HasCode /\ Code # Closer

\* C17: escape does not consume a unit that is not the closing character:
\* its step changes nothing but the state, which becomes title with the same
\* unit pending, so the run goes on as title does on that unit.  A backslash
\* before a line ending or the end of the input is the last unit of its
\* Data span, and after any consumed backslash of the body (a second one
\* too) the automaton is in escape.
EscapeHandsOver ==
  /\ [][EscapeOnOther =>
          /\ pc' = "title"
          /\ tokenizer' = tokenizer
          /\ info' = info
          /\ codes' = codes]_vars
  /\ [](\A i \in 2..(Len(codes) - 1) :
          (/\ Accepted
           /\ codes[i] = "\\"
           /\ IsEol(codes[i + 1]) \/ codes[i + 1] = None
           /\ pc \in {"at_break", "space_or_tab_eol", "eol_after",
                      "eol_space", "at_break_after", "Nok"}) =>
            \E d \in Spans("Data") : d.to = i /\ d.from < i)
  /\ []((/\ Accepted
         /\ pc \in States
         /\ ~HasCode
         /\ codes[tokenizer.point] = "\\") => pc = "escape")

EscapeHandsOverWitness ==
  /\ pc = "escape"
  /\ codes = <<"\"", "\\", "\\">>
  /\ tokenizer.point = 3

\* title is about to run on a unit that ends the text segment.
TitleAtBreak ==
  pc = "title" /\ HasCode /\ (Code = Closer \/ Code = None \/ IsEol(Code))

\* C18: no Data span contains a line ending.  On a line ending, the end of
\* the input or a closing character, title appends Exit(Data) at the current
\* position and consumes nothing, and at_break is next on the same unit; a
\* line ending is consumed only by the delegated sub-automaton, inside a
\* LineEnding span.
NoEolInData ==
  /\ [](\A d \in Spans("Data") :
          \A i \in (d.from + 1)..d.to : ~IsEol(codes[i]))
  /\ [][TitleAtBreak =>
          /\ pc' = "at_break"
          /\ codes' = codes
          /\ tokenizer'.point = tokenizer.point
          /\ tokenizer'.events =
               Append(tokenizer.events,
                      Event("Exit", "Data", tokenizer.point, "None"))]_vars
  /\ [][(HasCode /\ IsEol(Code) /\ tokenizer'.point > tokenizer.point) =>
          pc = "space_or_tab_eol"]_vars
  /\ [](\A i \in 2..tokenizer.point :
          IsEol(codes[i]) =>
            \E l \in Spans("LineEnding") : l.from = i - 1 /\ l.to = i)

NoEolInDataWitness ==
  /\ pc = "title"
  /\ codes = <<"\"", "a", "\r", "a">>
  /\ ~HasCode
  /\ Cardinality(Spans("Data")) = 2
  /\ Cardinality(Spans("LineEnding")) = 1

\* The three events begin appends around the closing character at position p.
ClosingEvents(p) ==
  <<Event("Enter", Options.marker, p, "None"),
    Event("Exit", Options.marker, p + 1, "None"),
    Event("Exit", Options.title, p + 1, "None")>>

\* One step of the construct on an input that is there as a whole.
StepOn(input, s) ==
  LET t == s.tokenizer
      code == input[t.point + 1]
      Sub(r) == Result(r.tokenizer, s.info, r.state)
  IN CASE s.state = "start" -> start(t, code, Options)
       [] s.state = "begin" -> begin(t, code, s.info)
       [] s.state = "at_break" -> at_break(t, code, s.info)
       [] s.state = "at_break_after" -> at_break_after(t, code, s.info)
       [] s.state = "title" -> title(t, code, s.info)
       [] s.state = "escape" -> escape(t, code, s.info)
       [] s.state = "space_or_tab_eol" ->
            Sub(space_or_tab_eol_with_options(t, code,
                                              Top(t.frames).state_fn))
       [] s.state = "eol_after" ->
            Sub(eol_after(t, code, Top(t.frames).state_fn))
       [] s.state = "eol_space" -> Sub(eol_space(t, code))

\* Units of every sort behind the closing character: text, a line ending,
\* a backslash, a closing character, the end of the input.
Following == {"a", "\n", "\\", Closer, None}

\* The state in which the caller attempts the construct.
StartState ==
  Result([events |-> CallerEvents, point |-> 0,
          frames |-> <<CallerFrame(CallerEvents, 0)>>], NoInfo, "start")

\* The run of the construct on the whole of an input, up to its result.
RECURSIVE RunOn(_, _)
RunOn(input, s) ==
  IF s.state \in States /\ s.tokenizer.point < Len(input)
  THEN RunOn(input, StepOn(input, s))
  ELSE s

\* C19: Ok is returned by the step of begin that consumes the closing
\* character: that step moves the position by one, to the end of the units
\* fed so far, and appends the closing marker and Exit(Title); once Ok is
\* returned no unit is asked for and nothing changes.  The run on the same
\* units with any further unit behind the closing character ends in Ok with
\* the same log and the same position.
OkOnCloser ==
  /\ [][(pc' = "Ok" /\ pc # "Ok") =>
          /\ pc = "begin"
          /\ HasCode
          /\ Code = Closer
          /\ codes' = codes
          /\ tokenizer'.point = tokenizer.point + 1
          /\ tokenizer'.point = Len(codes)
          /\ tokenizer'.events =
               tokenizer.events \o ClosingEvents(tokenizer.point)]_vars
  /\ [][pc # "Ok"]_vars
  /\ [](pc = "Ok" =>
         /\ tokenizer.point = Min(UnescapedClosers)
         /\ \A code \in Following :
              RunOn(Append(codes, code), StartState)
                = Result(tokenizer, info, "Ok"))

OkOnCloserWitness ==
  /\ pc = "Ok"
  /\ codes = <<"'", "a", "\"", "'">>
  /\ tokenizer.point = 4

\* The pending unit is one on which at_break opens a Data span.
TextPending ==
  HasCode /\ Code # Closer /\ Code # None /\ ~IsEol(Code)

\* C20: every Data span in the log covers at least one consumed unit, in
\* every state up to Ok and when Nok is returned: the only Data span without
\* a unit is the one at_break has just opened, on a unit that is no closing
\* character, no line ending and not the end of the input, and title is
\* about to consume that unit.
DataNotEmpty ==
  \A d \in Spans("Data") :
    \/ d.from < d.to
    \/ /\ d.enter = Len(tokenizer.events)
       /\ pc = "title"
       /\ TextPending

DataNotEmptyWitness ==
  /\ pc = "Nok"
  /\ codes = <<"(", "a", None>>
  /\ \E d \in Spans("Data") : d.from = 1 /\ d.to = 2

====
